---- MODULE Spec2Model ----
(***************************************************************************)
(* Verification model of chat-tools: the Tool-Call Approval Gate           *)
(* (ApprovalExtension.wrapTools, ApprovalManager, DrizzleStorage's         *)
(* auto_approved_tools table) and the Extension Manager (register,         *)
(* unregister, activate, deactivate, hook dispatch).                       *)
(*                                                                         *)
(* Spec     : the approval gate, one wrapped tool invocation in flight,    *)
(*            interleaved at its await points with removeAutoApprovedTool. *)
(* ExtSpec  : the extension manager, one host call in flight, activate and *)
(*            deactivate stepped through their awaits.                     *)
(* HookSpec : the hook manager alone, one execute in flight whose handlers *)
(*            settle in any order.                                         *)
(* FollowSpec : the approval gate, a first invocation and the one made     *)
(*            after it has settled.                                        *)
(* RaceSpec : the approval gate, two invocations in flight at once.        *)
(* ConcSpec : the extension manager, two host calls in flight at once.     *)
(* ChatSpec : the example Chat, its tool set and one invocation through    *)
(*            the approval wrappers around a tool.                         *)
(* TuiSpec  : ChatApp's approval prompt and its /approve, /deny commands.  *)
(* FanoutSpec : one unified lifecycle callback over the chat extensions.   *)
(***************************************************************************)
EXTENDS Naturals, Sequences, FiniteSets

VARIABLES
    autoApprovedTools,  \* the auto_approved_tools table: (toolName, sessionId) -> number of rows
    call,               \* per invocation slot: the wrapped execute's position, locals and what it did
    extensions,         \* ExtensionManager.extensions: id -> extension object
    activeExtensions,   \* ExtensionManager.activeExtensions: a Set, in insertion order
    extensionContexts,  \* ExtensionManager.extensionContexts: the ids holding a context
    hooks,              \* HookManager.hooks: hook name -> owner ids with a handler, in insertion order
    stack,              \* the activate/deactivate calls of the host call in flight, innermost last
    op,                 \* the host call in flight or just settled, with what it ran
    dispatch,           \* the HookManager.execute call in flight: its handlers' promises and outcome
    chat,               \* the example Chat: its tools (name -> approval wrappers around it), agent, model, prompt
    invocation,         \* one tool invocation made through the Chat's agent, layer by layer
    tui,                \* ChatApp: the approval promises, globalThis.approvalResolve, showApproval
    fanout,             \* one call of a unified lifecycle callback built by toAISDKOptions
    parked              \* a second host call of the ExtensionManager, suspended at an await

gateVars == <<autoApprovedTools, call>>
extVars == <<extensions, activeExtensions, extensionContexts, hooks, stack, op>>
hookVars == <<dispatch>>
chatVars == <<chat, invocation, tui, fanout>>
concVars == <<parked>>

-----------------------------------------------------------------------------
(* Values *)

Undefined == "undefined"            \* JavaScript undefined / SQL NULL session
Sessions == {"s1", "s2"}
SessionIds == Sessions \cup {Undefined}
Params == {"p1", "p2"}
Calls == {"c1", "c2"}               \* invocation slots
MainCalls == {"c1"}                 \* slots Spec drives

\* The record handed to wrapTools: tool name -> tool; list_dir has no execute.
ToolSet == [delete_file |-> [execute |-> TRUE], list_dir |-> [execute |-> FALSE]]
Tools == DOMAIN ToolSet

\* The second argument of execute as the caller passes it.
UndefinedOptions == [defined |-> FALSE, toolCallId |-> "", sessionId |-> Undefined]
CallerOptions == {[defined |-> TRUE, toolCallId |-> "tc", sessionId |-> s] : s \in SessionIds}
OptionsIn == {UndefinedOptions} \cup CallerOptions
\* The literal the wrapper substitutes for falsy options.
DefaultOptions == [defined |-> TRUE, toolCallId |-> "approval-wrapped", sessionId |-> Undefined]

Scopes == {"absent", "once", "session", "global"}
Responses == [approved : BOOLEAN, scope : Scopes]
NoResponse == [approved |-> FALSE, scope |-> "none"]

Keys == Tools \X SessionIds

IdleCall ==
    [pc |-> "idle", toolName |-> Undefined, parameters |-> Undefined,
     options |-> UndefinedOptions, sessionId |-> Undefined,
     globalRow |-> "unknown", sessionRow |-> "unknown",
     lookupError |-> FALSE, saveError |-> FALSE,
     requests |-> <<>>, response |-> NoResponse, approved |-> "pending",
     writes |-> <<>>, executed |-> <<>>, outcome |-> [kind |-> "pending", tool |-> Undefined]]

-----------------------------------------------------------------------------
(* DrizzleStorage: the auto_approved_tools table *)

\* The query with eq(sessionId, null) in place of IS NULL: no row matches.
SelectGlobal_EqNull(t) == FALSE

\* SELECT ... WHERE toolName = t AND sessionId IS NULL LIMIT 1
SelectGlobal(t) == autoApprovedTools[<<t, Undefined>>] > 0

\* The session query without its sessionId condition.
SelectSession_AnySession(t, sid) == \E s \in Sessions : autoApprovedTools[<<t, s>>] > 0

\* SELECT ... WHERE toolName = t AND sessionId = sid LIMIT 1
SelectSession(t, sid) == autoApprovedTools[<<t, sid>>] > 0

\* INSERT one row; a falsy sessionId is stored as NULL (the global key)
AddAutoApprovedTool(t, sid) ==
    [autoApprovedTools EXCEPT ![<<t, sid>>] = @ + 1]

\* DELETE WHERE toolName = t AND (sessionId = sid | sessionId IS NULL)
StorageRemove(table, t, sid) == [table EXCEPT ![<<t, sid>>] = 0]

\* DrizzleStorage.getAutoApprovedTools(sessionId?): the rows of one key space
StorageList(sid) == {k \in Keys : k[2] = sid /\ autoApprovedTools[k] > 0}

\* DrizzleStorage.isToolAutoApproved evaluated in one state
IsToolAutoApproved(t, sid) ==
    \/ SelectGlobal(t)
    \/ sid # Undefined /\ SelectSession(t, sid)

-----------------------------------------------------------------------------
(* ApprovalManager *)

\* getAutoApprovedTools(sessionId?, scope?)
GetAutoApprovedTools(sid, scope) ==
    IF scope = "global" THEN StorageList(Undefined)
    ELSE IF scope = "session" /\ sid # Undefined THEN StorageList(sid)
    ELSE StorageList(Undefined) \cup (IF sid # Undefined THEN StorageList(sid) ELSE {})

\* The branch without its response.approved conjunct.
ShouldSave_IgnoresApproved(r) == r.scope # "absent" /\ r.scope # "once"

\* The branch of shouldApprove that decides whether saveApprovalScope is called.
ShouldSave(r) == r.approved /\ r.scope # "absent" /\ r.scope # "once"

\* shouldApprove's return value after the strategy answered: response.approved.
Resolved(r) == IF r.approved THEN "true" ELSE "false"

\* saveApprovalScope with a bare else: a session scope without sessionId goes global.
SaveTarget_FallsToGlobal(scope, sid) ==
    IF scope = "session" /\ sid # Undefined THEN {sid} ELSE {Undefined}

\* saveApprovalScope: the key it writes, or none.
SaveTarget(scope, sid) ==
    IF scope = "session" /\ sid # Undefined THEN {sid}
    ELSE IF scope = "global" THEN {Undefined}
    ELSE {}

\* removeAutoApprovedTool(toolName, sessionId?, scope?): the table afterwards.
ManagerRemove(t, sid, scope) ==
    IF scope = "global" THEN StorageRemove(autoApprovedTools, t, Undefined)
    ELSE IF scope = "session" /\ sid # Undefined THEN StorageRemove(autoApprovedTools, t, sid)
    ELSE LET afterGlobal == StorageRemove(autoApprovedTools, t, Undefined)
         IN IF sid # Undefined THEN StorageRemove(afterGlobal, t, sid) ELSE afterGlobal

\* saveApprovalScope without its try/catch: the insert's error leaves shouldApprove.
AfterSaveError_Propagates(r) == "threw"

\* shouldApprove's return value after saveApprovalScope caught the insert's
\* error and warned: response.approved, as without the error.
AfterSaveError(r) == Resolved(r)

\* The denial test without its negation.
WrapperDenies_NotNegated(approved) == approved = "true"

\* if (!approved) throw new Error(`Tool execution denied: ${toolName}`)
WrapperDenies(approved) == approved # "true"

\* The wrapper always handing over its own literal.
DelegatedOptions_AlwaysDefault(options) == DefaultOptions

\* The context argument the wrapper hands to the original execute.
DelegatedOptions(options) == IF options.defined THEN options ELSE DefaultOptions

-----------------------------------------------------------------------------
(* The wrapped execute, one step per await *)

\* wrappedTools[toolName].execute(parameters, options) is called.
Invoke(c, t, p, o) ==
    /\ call[c].pc = "idle"
    /\ call' = [call EXCEPT ![c] =
           [IdleCall EXCEPT !.pc = "checkGlobal", !.toolName = t, !.parameters = p,
                            !.options = o,
                            !.sessionId = IF o.defined THEN o.sessionId ELSE Undefined]]
    /\ UNCHANGED <<autoApprovedTools, extVars, hookVars, chatVars, concVars>>

\* isToolAutoApproved: the global query; found -> shouldApprove returns true.
CheckGlobal(c) ==
    /\ call[c].pc = "checkGlobal"
    /\ LET me == call[c]
           truth == IF autoApprovedTools[<<me.toolName, Undefined>>] > 0 THEN "yes" ELSE "no"
       IN \/ /\ SelectGlobal(me.toolName)
             /\ call' = [call EXCEPT ![c].pc = "gate", ![c].approved = "true",
                                     ![c].globalRow = truth]
          \/ /\ ~SelectGlobal(me.toolName)
             /\ me.sessionId # Undefined
             /\ call' = [call EXCEPT ![c].pc = "checkSession", ![c].globalRow = truth]
          \/ /\ ~SelectGlobal(me.toolName)
             /\ me.sessionId = Undefined
             /\ call' = [call EXCEPT ![c].pc = "prompt", ![c].globalRow = truth,
                            ![c].requests = Append(@, [toolName |-> me.toolName,
                                params |-> me.parameters, sessionId |-> me.sessionId])]
    /\ UNCHANGED <<autoApprovedTools, extVars, hookVars, chatVars, concVars>>

\* isToolAutoApproved: the session query, reached only with a sessionId.
CheckSession(c) ==
    /\ call[c].pc = "checkSession"
    /\ LET me == call[c]
           truth == IF autoApprovedTools[<<me.toolName, me.sessionId>>] > 0 THEN "yes" ELSE "no"
       IN \/ /\ SelectSession(me.toolName, me.sessionId)
             /\ call' = [call EXCEPT ![c].pc = "gate", ![c].approved = "true",
                                     ![c].sessionRow = truth]
          \/ /\ ~SelectSession(me.toolName, me.sessionId)
             /\ call' = [call EXCEPT ![c].pc = "prompt", ![c].sessionRow = truth,
                            ![c].requests = Append(@, [toolName |-> me.toolName,
                                params |-> me.parameters, sessionId |-> me.sessionId])]
    /\ UNCHANGED <<autoApprovedTools, extVars, hookVars, chatVars, concVars>>

\* A storage query of isToolAutoApproved throws: shouldApprove and the wrapper reject.
LookupFails(c) ==
    /\ call[c].pc \in {"checkGlobal", "checkSession"}
    /\ call' = [call EXCEPT ![c].pc = "done", ![c].approved = "threw",
                            ![c].lookupError = TRUE,
                            ![c].outcome = [kind |-> "storageError", tool |-> Undefined]]
    /\ UNCHANGED <<autoApprovedTools, extVars, hookVars, chatVars, concVars>>

\* strategy.requestApproval resolves with r.
StrategyResponds(c, r) ==
    /\ call[c].pc = "prompt"
    /\ \/ /\ ShouldSave(r)
          /\ call' = [call EXCEPT ![c].pc = "save", ![c].response = r]
       \/ /\ ~ShouldSave(r)
          /\ call' = [call EXCEPT ![c].pc = "gate", ![c].response = r,
                         ![c].approved = Resolved(r)]
    /\ UNCHANGED <<autoApprovedTools, extVars, hookVars, chatVars, concVars>>

\* strategy.requestApproval rejects: shouldApprove and the wrapper reject.
StrategyRejects(c) ==
    /\ call[c].pc = "prompt"
    /\ call' = [call EXCEPT ![c].pc = "done", ![c].approved = "threw",
                            ![c].outcome = [kind |-> "strategyError", tool |-> Undefined]]
    /\ UNCHANGED <<autoApprovedTools, extVars, hookVars, chatVars, concVars>>

\* saveApprovalScope, then shouldApprove returns response.approved.
SaveApprovalScope(c) ==
    /\ call[c].pc = "save"
    /\ LET me == call[c]
           target == SaveTarget(me.response.scope, me.sessionId)
       IN \/ /\ target = {}
             /\ call' = [call EXCEPT ![c].pc = "gate", ![c].approved = Resolved(me.response)]
             /\ UNCHANGED autoApprovedTools
          \/ \E sid \in target :
                \/ /\ call' = [call EXCEPT ![c].pc = "gate",
                                   ![c].approved = Resolved(me.response),
                                   ![c].writes = Append(@, <<me.toolName, sid>>)]
                   /\ autoApprovedTools' = AddAutoApprovedTool(me.toolName, sid)
                \/ \* the insert throws: caught, warned
                   /\ call' = [call EXCEPT ![c].pc = IF AfterSaveError(me.response) = "threw"
                                                     THEN "done" ELSE "gate",
                                   ![c].approved = AfterSaveError(me.response),
                                   ![c].saveError = TRUE,
                                   ![c].writes = Append(@, <<me.toolName, sid>>),
                                   ![c].outcome = IF AfterSaveError(me.response) = "threw"
                                                  THEN [kind |-> "storageError", tool |-> Undefined]
                                                  ELSE @]
                   /\ UNCHANGED autoApprovedTools
    /\ UNCHANGED <<extVars, hookVars, chatVars, concVars>>

\* The wrapper after shouldApprove resolved: deny, delegate, or no execute function.
Gate(c) ==
    /\ call[c].pc = "gate"
    /\ LET me == call[c]
       IN \/ /\ WrapperDenies(me.approved)
             /\ call' = [call EXCEPT ![c].pc = "done",
                            ![c].outcome = [kind |-> "denied", tool |-> me.toolName]]
          \/ /\ ~WrapperDenies(me.approved)
             /\ ToolSet[me.toolName].execute
             /\ call' = [call EXCEPT ![c].pc = "done",
                            ![c].executed = Append(@, [parameters |-> me.parameters,
                                                       options |-> DelegatedOptions(me.options)]),
                            ![c].outcome = [kind |-> "result", tool |-> me.toolName]]
          \/ /\ ~WrapperDenies(me.approved)
             /\ ~ToolSet[me.toolName].execute
             /\ call' = [call EXCEPT ![c].pc = "done",
                            ![c].outcome = [kind |-> "noExecute", tool |-> me.toolName]]
    /\ UNCHANGED <<autoApprovedTools, extVars, hookVars, chatVars, concVars>>

\* The caller has consumed the settled promise; the slot is free again.
Settle(c) ==
    /\ call[c].pc = "done"
    /\ call' = [call EXCEPT ![c] = IdleCall]
    /\ UNCHANGED <<autoApprovedTools, extVars, hookVars, chatVars, concVars>>

\* ApprovalManager.removeAutoApprovedTool(toolName, sessionId?, scope?)
RemoveAutoApprovedTool(t, sid, scope) ==
    /\ autoApprovedTools' = ManagerRemove(t, sid, scope)
    /\ UNCHANGED <<call, extVars, hookVars, chatVars, concVars>>

\* The caller's first invocation of a wrapped tool.
FirstCall(t, o) ==
    /\ call["c2"].pc = "idle"
    /\ Invoke("c1", t, "p1", o)

\* The caller's next invocation, made once the first has settled.
NextCall(t, o) ==
    /\ call["c1"].pc = "done"
    /\ Invoke("c2", t, "p1", o)

GateInit ==
    /\ autoApprovedTools = [k \in Keys |-> 0]
    /\ call = [c \in Calls |-> IdleCall]

GateNext ==
    \/ \E c \in MainCalls, t \in Tools, p \in Params, o \in OptionsIn : Invoke(c, t, p, o)
    \/ \E c \in MainCalls : CheckGlobal(c)
    \/ \E c \in MainCalls : CheckSession(c)
    \/ \E c \in MainCalls : LookupFails(c)
    \/ \E c \in MainCalls, r \in Responses : StrategyResponds(c, r)
    \/ \E c \in MainCalls : StrategyRejects(c)
    \/ \E c \in MainCalls : SaveApprovalScope(c)
    \/ \E c \in MainCalls : Gate(c)
    \/ \E c \in MainCalls : Settle(c)
    \/ \E t \in Tools, sid \in SessionIds, scope \in {"absent", "global", "session"} :
          RemoveAutoApprovedTool(t, sid, scope)

\* Two invocations one after the other, the first kept for comparison.
FollowNext ==
    \/ \E t \in Tools, o \in OptionsIn : FirstCall(t, o)
    \/ \E t \in Tools, o \in OptionsIn : NextCall(t, o)
    \/ \E c \in Calls : CheckGlobal(c)
    \/ \E c \in Calls : CheckSession(c)
    \/ \E c \in Calls : LookupFails(c)
    \/ \E c \in Calls, r \in Responses : StrategyResponds(c, r)
    \/ \E c \in Calls : StrategyRejects(c)
    \/ \E c \in Calls : SaveApprovalScope(c)
    \/ \E c \in Calls : Gate(c)
    \/ \E t \in Tools, sid \in SessionIds, scope \in {"absent", "global", "session"} :
          RemoveAutoApprovedTool(t, sid, scope)

\* Two invocations in flight at once: either slot takes its next step at any
\* await of the other. One tool, called without options or within session s1.
RaceOptions == {o \in OptionsIn : o.sessionId \in {Undefined, "s1"}}

RaceNext ==
    \/ \E c \in Calls, o \in RaceOptions : Invoke(c, "delete_file", "p1", o)
    \/ \E c \in Calls : CheckGlobal(c)
    \/ \E c \in Calls : CheckSession(c)
    \/ \E c \in Calls, r \in Responses : StrategyResponds(c, r)
    \/ \E c \in Calls : SaveApprovalScope(c)
    \/ \E c \in Calls : Gate(c)
    \/ \E c \in Calls : Settle(c)

-----------------------------------------------------------------------------
(* Extension objects *)

MaxCallStack == 4       \* activate frames the call stack holds before RangeError

FrameworkVersion == "1.0.0"
HookNames == {"framework:beforeInit", "framework:afterInit",
              "framework:beforeShutdown", "framework:afterShutdown"}

\* semver.valid and semver.satisfies on the versions and ranges in use
SemverValid(v) == v \in {"1.0.0", "2.0.0"}
Major(v) == IF v = "2.0.0" THEN 2 ELSE 1
RangeMin(range) == IF range = ">=2.0.0" THEN 2 ELSE 1
Satisfies(v, range) == SemverValid(v) /\ Major(v) >= RangeMin(range)

Dep(id, range) == [id |-> id, range |-> range]
Extension(name, version, chatTools, deps, activate, deactivate, hookNames) ==
    [name |-> name, version |-> version, chatTools |-> chatTools, deps |-> deps,
     activate |-> activate, deactivate |-> deactivate, hooks |-> hookNames]

IdA == <<"a">>
IdB == <<"b">>
IdC == <<"c">>
Ids == {IdA, IdB, IdC}
NoExt == Extension(<<>>, "", "", <<>>, FALSE, FALSE, {})

\* The extension objects a host hands to register.
Catalog ==
    { Extension(<<"a">>, "1.0.0", ">=1.0.0", <<>>, TRUE, TRUE, {"framework:beforeInit"}),
      Extension(<<"A">>, "2.0.0", "", <<Dep(IdC, ">=1.0.0"), Dep(IdB, ">=1.0.0")>>, TRUE, FALSE, {}),
      Extension(<<"b">>, "1.0.0", "", <<Dep(IdA, ">=1.0.0")>>, TRUE, TRUE,
                {"framework:afterInit", "framework:beforeShutdown"}),
      Extension(<<"b">>, "1.0.0", "", <<Dep(IdA, ">=2.0.0")>>, TRUE, FALSE, {}),
      Extension(<<"c">>, "1.0.0", "", <<>>, TRUE, FALSE, {"framework:afterShutdown"}),
      Extension(<<"c">>, "2.0.0", "", <<>>, FALSE, TRUE, {}),
      Extension(<<>>, "1.0.0", "", <<>>, TRUE, FALSE, {}),
      Extension(<<"c">>, "", "", <<>>, TRUE, FALSE, {}),
      Extension(<<"c">>, "latest", "", <<>>, TRUE, FALSE, {}),
      Extension(<<"c">>, "1.0.0", ">=2.0.0", <<>>, TRUE, FALSE, {}) }

\* extension.getTools: whether the extension has a tool provider, and the
\* names of the tools it returns. Extensions named a and b both provide search.
HasGetTools(extension) == extension.name \in {<<"a">>, <<"A">>, <<"b">>}
GetTools(extension) ==
    CASE extension.name \in {<<"a">>, <<"A">>} -> <<"search", "fetch">>
      [] extension.name = <<"b">> -> <<"search">>
      [] OTHER -> <<>>

\* name.toLowerCase().replace(/[^a-z0-9]/g, '-')
ToLowerCase(ch) ==
    CASE ch = "A" -> "a" [] ch = "B" -> "b" [] ch = "C" -> "c" [] OTHER -> ch
ReplaceNonAlnum(ch) == IF ch \in {"a", "b", "c", "0", "1"} THEN ch ELSE "-"
GetExtensionId(extension) ==
    [i \in 1..Len(extension.name) |-> ReplaceNonAlnum(ToLowerCase(extension.name[i]))]

-----------------------------------------------------------------------------
(* ExtensionManager and HookManager *)

IsActive(id) == \E i \in 1..Len(activeExtensions) : activeExtensions[i] = id
IsRegistered(id) == id \in Ids /\ extensions[id] # NoExt

\* A delete that also drops the extensions declaring id as a dependency.
SetDelete_WithDependents(seq, id) ==
    SelectSeq(seq, LAMBDA x : x # id /\ ~(\E i \in 1..Len(extensions[x].deps) :
                                             extensions[x].deps[i].id = id))

\* Set.add and Set.delete on the insertion-ordered active set
SetAdd(seq, id) == IF \E i \in 1..Len(seq) : seq[i] = id THEN seq ELSE Append(seq, id)
SetDelete(seq, id) == SelectSeq(seq, LAMBDA x : x # id)

\* validateExtension checking the name only.
ValidExtension_NameOnly(extension) == extension.name # <<>>

\* validateExtension: name and version non-empty, version a semver
ValidExtension(extension) ==
    /\ extension.name # <<>>
    /\ extension.version # ""
    /\ SemverValid(extension.version)

\* checkDependencies: framework range, then every declared dependency
DependenciesSatisfied(extension) ==
    /\ extension.chatTools # "" => Satisfies(FrameworkVersion, extension.chatTools)
    /\ \A i \in 1..Len(extension.deps) :
          /\ IsRegistered(extension.deps[i].id)
          /\ Satisfies(extensions[extension.deps[i].id].version, extension.deps[i].range)

\* register leaving the hooks for activation to register.
RegisterHooks_Deferred(id, names) == hooks

\* registerExtensionHooks / HookManager.register: one handler per (hook, owner)
RegisterHooks(id, names) == [h \in HookNames |-> IF h \in names THEN SetAdd(hooks[h], id) ELSE hooks[h]]

\* HookManager.unregisterAll
UnregisterAll(id) == [h \in HookNames |-> SetDelete(hooks[h], id)]

\* The loop treating every dependency as already active.
NeedsActivation_Never(depId) == FALSE

\* activateDependencies: whether the loop activates this dependency
NeedsActivation(depId) == ~IsActive(depId)

\* activate without its early return.
AlreadyActive_Never(id) == FALSE

\* activate: the early return for an extension that is already active
AlreadyActive(id) == IsActive(id)

\* getDependencies(extensionId)
GetDependencies(id) ==
    IF IsRegistered(id) THEN {extensions[id].deps[i].id : i \in 1..Len(extensions[id].deps)} ELSE {}

NoOp == [kind |-> "none", id |-> <<>>, status |-> "none", error |-> "", pc |-> "",
         before |-> <<>>, log |-> <<>>]
Frame(kind, id, pc) == [kind |-> kind, id |-> id, ext |-> extensions[id], pc |-> pc, i |-> 1]
Top == stack[Len(stack)]
Event(what, id) == <<what, id>>

Running == op.status = "running"

\* The host call that is not running now: its frames and its record.
NoParked == [stack |-> <<>>, op |-> NoOp]

\* An exception leaves the innermost call: every caller awaits it outside a
\* handler that would absorb it, so the host call rejects.
Rejected(error, events) ==
    /\ stack' = <<>>
    /\ op' = [op EXCEPT !.status = "rejected", !.error = error, !.log = @ \o events]

\* The innermost call returns; its caller resumes after its await.
Returned(events) ==
    /\ stack' = IF Len(stack) = 1 THEN <<>>
                ELSE [SubSeq(stack, 1, Len(stack) - 1) EXCEPT ![Len(stack) - 1].i = @ + 1]
    /\ op' = [op EXCEPT !.log = @ \o events,
                        !.status = IF Len(stack) = 1 /\ op.kind # "unregister"
                                   THEN "resolved" ELSE @,
                        !.pc = IF Len(stack) = 1 /\ op.kind = "unregister"
                               THEN "remove" ELSE @]

\* HookManager.execute: no handler, or every handler runs; any one may throw.
HookOutcomes(h) == IF hooks[h] = <<>> THEN {"ok"} ELSE {"ok", "throws"}

\* register(extension)
Register(extension) ==
    /\ op.status = "none"
    /\ LET id == GetExtensionId(extension)
       IN IF ValidExtension(extension) /\ DependenciesSatisfied(extension)
          THEN /\ extensions' = [extensions EXCEPT ![id] = extension]
               /\ extensionContexts' = extensionContexts \cup {id}
               /\ hooks' = RegisterHooks(id, extension.hooks)
               /\ op' = [NoOp EXCEPT !.kind = "register", !.id = id, !.status = "resolved"]
          ELSE /\ op' = [NoOp EXCEPT !.kind = "register", !.id = id, !.status = "rejected",
                                     !.error = IF ValidExtension(extension)
                                               THEN "dependency" ELSE "invalid"]
               /\ UNCHANGED <<extensions, extensionContexts, hooks>>
    /\ UNCHANGED <<activeExtensions, stack, gateVars, hookVars, chatVars, concVars>>

\* activate(extensionId) called by the host
Activate(id) ==
    /\ op.status = "none"
    /\ LET me == [NoOp EXCEPT !.kind = "activate", !.id = id, !.before = activeExtensions]
       IN IF ~IsRegistered(id)
          THEN /\ op' = [me EXCEPT !.status = "rejected", !.error = "not found"]
               /\ UNCHANGED stack
          ELSE IF AlreadyActive(id)
          THEN /\ op' = [me EXCEPT !.status = "resolved"]
               /\ UNCHANGED stack
          ELSE /\ op' = [me EXCEPT !.status = "running"]
               /\ stack' = <<Frame("activate", id, "deps")>>
    /\ UNCHANGED <<extensions, activeExtensions, extensionContexts, hooks, gateVars, hookVars, chatVars, concVars>>

\* activateDependencies: one turn of the loop of the innermost activate
ActivateDependencies ==
    /\ Running /\ stack # <<>> /\ Top.kind = "activate" /\ Top.pc = "deps"
    /\ IF Top.i > Len(Top.ext.deps)
       THEN /\ stack' = [stack EXCEPT ![Len(stack)].pc = "beforeInit"]
            /\ UNCHANGED op
       ELSE LET depId == Top.ext.deps[Top.i].id
            IN IF ~NeedsActivation(depId)
               THEN /\ stack' = [stack EXCEPT ![Len(stack)].i = @ + 1]
                    /\ UNCHANGED op
               ELSE IF ~IsRegistered(depId)
               THEN Rejected("not found", <<>>)
               ELSE IF AlreadyActive(depId)
               THEN /\ stack' = [stack EXCEPT ![Len(stack)].i = @ + 1]
                    /\ UNCHANGED op
               ELSE IF Len(stack) >= MaxCallStack
               THEN Rejected("RangeError", <<>>)
               ELSE /\ stack' = Append(stack, Frame("activate", depId, "deps"))
                    /\ UNCHANGED op
    /\ UNCHANGED <<extensions, activeExtensions, extensionContexts, hooks, gateVars, hookVars, chatVars, concVars>>

\* activate: executeHook('framework:beforeInit')
BeforeInit ==
    /\ Running /\ stack # <<>> /\ Top.kind = "activate" /\ Top.pc = "beforeInit"
    /\ \E outcome \in HookOutcomes("framework:beforeInit") :
          \/ /\ outcome = "ok"
             /\ stack' = [stack EXCEPT ![Len(stack)].pc = "callback"]
             /\ op' = [op EXCEPT !.log = Append(@, Event("beforeInit", Top.id))]
          \/ /\ outcome = "throws"
             /\ Rejected("hook", <<Event("beforeInit", Top.id)>>)
    /\ UNCHANGED <<extensions, activeExtensions, extensionContexts, hooks, gateVars, hookVars, chatVars, concVars>>

\* activate: the extension's own activate(context), when it has one
ActivateCallback ==
    /\ Running /\ stack # <<>> /\ Top.kind = "activate" /\ Top.pc = "callback"
    /\ \/ /\ ~Top.ext.activate
          /\ stack' = [stack EXCEPT ![Len(stack)].pc = "mark"]
          /\ UNCHANGED op
       \/ /\ Top.ext.activate
          /\ stack' = [stack EXCEPT ![Len(stack)].pc = "mark"]
          /\ op' = [op EXCEPT !.log = Append(@, Event("activate", Top.id))]
       \/ /\ Top.ext.activate
          /\ Rejected("callback", <<Event("activate", Top.id)>>)
    /\ UNCHANGED <<extensions, activeExtensions, extensionContexts, hooks, gateVars, hookVars, chatVars, concVars>>

\* activate: activeExtensions.add, then executeHook('framework:afterInit')
MarkActive ==
    /\ Running /\ stack # <<>> /\ Top.kind = "activate" /\ Top.pc = "mark"
    /\ activeExtensions' = SetAdd(activeExtensions, Top.id)
    /\ \E outcome \in HookOutcomes("framework:afterInit") :
          \/ /\ outcome = "ok"
             /\ Returned(<<Event("afterInit", Top.id)>>)
          \/ /\ outcome = "throws"
             /\ Rejected("hook", <<Event("afterInit", Top.id)>>)
    /\ UNCHANGED <<extensions, extensionContexts, hooks, gateVars, hookVars, chatVars, concVars>>

\* deactivate(extensionId) called by the host
Deactivate(id) ==
    /\ op.status = "none"
    /\ LET me == [NoOp EXCEPT !.kind = "deactivate", !.id = id, !.before = activeExtensions]
       IN IF ~IsRegistered(id)
          THEN /\ op' = [me EXCEPT !.status = "rejected", !.error = "not found"]
               /\ UNCHANGED stack
          ELSE IF ~IsActive(id)
          THEN /\ op' = [me EXCEPT !.status = "resolved"]
               /\ UNCHANGED stack
          ELSE /\ op' = [me EXCEPT !.status = "running"]
               /\ stack' = <<Frame("deactivate", id, "beforeShutdown")>>
    /\ UNCHANGED <<extensions, activeExtensions, extensionContexts, hooks, gateVars, hookVars, chatVars, concVars>>

\* deactivate: executeHook('framework:beforeShutdown')
BeforeShutdown ==
    /\ Running /\ stack # <<>> /\ Top.kind = "deactivate" /\ Top.pc = "beforeShutdown"
    /\ \E outcome \in HookOutcomes("framework:beforeShutdown") :
          \/ /\ outcome = "ok"
             /\ stack' = [stack EXCEPT ![Len(stack)].pc = "callback"]
             /\ op' = [op EXCEPT !.log = Append(@, Event("beforeShutdown", Top.id))]
          \/ /\ outcome = "throws"
             /\ Rejected("hook", <<Event("beforeShutdown", Top.id)>>)
    /\ UNCHANGED <<extensions, activeExtensions, extensionContexts, hooks, gateVars, hookVars, chatVars, concVars>>

\* deactivate: the extension's own deactivate(context), when it has one
DeactivateCallback ==
    /\ Running /\ stack # <<>> /\ Top.kind = "deactivate" /\ Top.pc = "callback"
    /\ \/ /\ ~Top.ext.deactivate
          /\ stack' = [stack EXCEPT ![Len(stack)].pc = "mark"]
          /\ UNCHANGED op
       \/ /\ Top.ext.deactivate
          /\ stack' = [stack EXCEPT ![Len(stack)].pc = "mark"]
          /\ op' = [op EXCEPT !.log = Append(@, Event("deactivate", Top.id))]
       \/ /\ Top.ext.deactivate
          /\ Rejected("callback", <<Event("deactivate", Top.id)>>)
    /\ UNCHANGED <<extensions, activeExtensions, extensionContexts, hooks, gateVars, hookVars, chatVars, concVars>>

\* deactivate: activeExtensions.delete, then executeHook('framework:afterShutdown')
MarkInactive ==
    /\ Running /\ stack # <<>> /\ Top.kind = "deactivate" /\ Top.pc = "mark"
    /\ activeExtensions' = SetDelete(activeExtensions, Top.id)
    /\ \E outcome \in HookOutcomes("framework:afterShutdown") :
          \/ /\ outcome = "ok"
             /\ Returned(<<Event("afterShutdown", Top.id)>>)
          \/ /\ outcome = "throws"
             /\ Rejected("hook", <<Event("afterShutdown", Top.id)>>)
    /\ UNCHANGED <<extensions, extensionContexts, hooks, gateVars, hookVars, chatVars, concVars>>

\* unregister(extensionId) called by the host: deactivates first when active
Unregister(id) ==
    /\ op.status = "none"
    /\ LET me == [NoOp EXCEPT !.kind = "unregister", !.id = id, !.before = activeExtensions]
       IN IF IsActive(id)
          THEN IF ~IsRegistered(id)
               THEN /\ op' = [me EXCEPT !.status = "rejected", !.error = "not found"]
                    /\ UNCHANGED stack
               ELSE /\ op' = [me EXCEPT !.status = "running"]
                    /\ stack' = <<Frame("deactivate", id, "beforeShutdown")>>
          ELSE /\ op' = [me EXCEPT !.status = "running", !.pc = "remove"]
               /\ UNCHANGED stack
    /\ UNCHANGED <<extensions, activeExtensions, extensionContexts, hooks, gateVars, hookVars, chatVars, concVars>>

\* unregister: hookManager.unregisterAll, extensions.delete, extensionContexts.delete
UnregisterRemove ==
    /\ Running /\ op.kind = "unregister" /\ op.pc = "remove" /\ stack = <<>>
    /\ hooks' = UnregisterAll(op.id)
    /\ extensions' = [i \in Ids |-> IF i = op.id THEN NoExt ELSE extensions[i]]
    /\ extensionContexts' = extensionContexts \ {op.id}
    /\ op' = [op EXCEPT !.status = "resolved"]
    /\ UNCHANGED <<activeExtensions, stack, gateVars, hookVars, chatVars, concVars>>

\* getToolsFromExtensions() called by the host
GetToolsFromExtensions ==
    /\ op.status = "none"
    /\ op' = [NoOp EXCEPT !.kind = "getTools", !.status = "running", !.before = activeExtensions]
    /\ stack' = <<[kind |-> "getTools", id |-> <<>>, ext |-> NoExt, pc |-> "loop", i |-> 1]>>
    /\ UNCHANGED <<extensions, activeExtensions, extensionContexts, hooks, gateVars, hookVars, chatVars, concVars>>

\* getToolsFromExtensions: one turn of the loop over activeExtensions, or the
\* return after the last; tools.push(...extensionTools) appends every tool.
PushTools ==
    /\ Running /\ stack # <<>> /\ Top.kind = "getTools"
    /\ IF Top.i > Len(activeExtensions)
       THEN Returned(<<>>)
       ELSE LET id == activeExtensions[Top.i]
                extensionTools == GetTools(extensions[id])
                pushed == [k \in 1..Len(extensionTools) |-> Event(extensionTools[k], id)]
            IN /\ stack' = [stack EXCEPT ![Len(stack)].i = @ + 1]
               /\ IF HasGetTools(extensions[id]) /\ id \in extensionContexts
                  THEN \/ op' = [op EXCEPT !.log = @ \o pushed]
                       \/ UNCHANGED op        \* getTools throws: caught, logged
                  ELSE UNCHANGED op
    /\ UNCHANGED <<extensions, activeExtensions, extensionContexts, hooks, gateVars, hookVars, chatVars, concVars>>

\* The host has consumed the settled promise.
Acknowledge ==
    /\ op.status \in {"resolved", "rejected"}
    /\ op' = NoOp
    /\ parked' = IF parked.op.status \in {"resolved", "rejected"} THEN NoParked ELSE parked
    /\ UNCHANGED <<extensions, activeExtensions, extensionContexts, hooks, stack, gateVars, hookVars, chatVars>>

\* The event loop turns to the other host call: the one in flight stays at
\* its await (or is not started, or the other is the one still to finish)
\* and the other resumes from where it stopped. The steps of a call are cut
\* at its awaits, so a turn between two steps is a turn at an await. A settled
\* call is parked only while the other is still running, and Acknowledge
\* consumes both: two calls held at once have overlapped.
Switch ==
    /\ op.status \in {"none", "running"} \/ parked.op.status = "running"
    /\ <<op.status, parked.op.status>> # <<"none", "none">>
    /\ parked' = [stack |-> stack, op |-> op]
    /\ stack' = parked.stack
    /\ op' = parked.op
    /\ UNCHANGED <<extensions, activeExtensions, extensionContexts, hooks, gateVars, hookVars, chatVars>>

ExtInit ==
    /\ extensions = [i \in Ids |-> NoExt]
    /\ activeExtensions = <<>>
    /\ extensionContexts = {}
    /\ hooks = [h \in HookNames |-> <<>>]
    /\ stack = <<>>
    /\ op = NoOp
    /\ parked = NoParked

ExtNext ==
    \/ \E extension \in Catalog : Register(extension)
    \/ \E id \in Ids : Activate(id)
    \/ ActivateDependencies
    \/ BeforeInit
    \/ ActivateCallback
    \/ MarkActive
    \/ \E id \in Ids : Deactivate(id)
    \/ BeforeShutdown
    \/ DeactivateCallback
    \/ MarkInactive
    \/ \E id \in Ids : Unregister(id)
    \/ UnregisterRemove
    \/ GetToolsFromExtensions
    \/ PushTools
    \/ Acknowledge

\* Two host calls in flight at once, over two extensions: a, and b which
\* depends on a.
ConcCatalog ==
    { Extension(<<"a">>, "1.0.0", "", <<>>, TRUE, TRUE, {"framework:beforeInit"}),
      Extension(<<"b">>, "1.0.0", "", <<Dep(IdA, ">=1.0.0")>>, FALSE, FALSE, {}) }
ConcIds == {IdA, IdB}

ConcNext ==
    \/ \E extension \in ConcCatalog : Register(extension)
    \/ \E id \in ConcIds : Activate(id)
    \/ ActivateDependencies
    \/ BeforeInit
    \/ ActivateCallback
    \/ MarkActive
    \/ BeforeShutdown
    \/ DeactivateCallback
    \/ MarkInactive
    \/ \E id \in ConcIds : Unregister(id)
    \/ UnregisterRemove
    \/ Acknowledge
    \/ Switch

-----------------------------------------------------------------------------
(* HookManager: register, unregister and execute, one step per settlement *)

\* The hook handlers are registered for directly, through
\* context.framework.hookManager, and the hooks a caller dispatches.
RegisteredHooks == {"framework:beforeInit"}
DispatchHooks == {"framework:beforeInit", "framework:afterInit"}

\* What handler(context) does when called: return a plain value, throw, or
\* return a promise that settles later.
Behaviours == {"returns", "throws", "pending"}

NoDispatch ==
    [status |-> "idle", hook |-> "", handlers |-> <<>>,
     invoked |-> [id \in Ids |-> 0], promise |-> [id \in Ids |-> "none"],
     rejections |-> <<>>, error |-> {}]

\* executeHandler as a plain function: a synchronous throw leaves the loop.
LoopContinuesAfter_SyncThrowAborts(behaviour) == behaviour # "throws"

\* executeHandler is async: whatever the handler does, the loop of execute
\* receives a promise and goes on to the next handler.
LoopContinuesAfter(behaviour) == TRUE

\* The handlers the loop of execute calls, in Map order.
Called(handlers, b) ==
    LET stops == {i \in 1..Len(handlers) : ~LoopContinuesAfter(b[handlers[i]])}
    IN IF stops = {} THEN handlers
       ELSE SubSeq(handlers, 1, CHOOSE i \in stops : \A j \in stops : i <= j)

\* The promise executeHandler returns, as it stands when the loop has ended.
HandlerPromise(behaviour) ==
    CASE behaviour = "returns" -> "fulfilled"
      [] behaviour = "throws" -> "rejected"
      [] OTHER -> "pending"

\* Promise.all: rejects with the reason of the first promise to reject; the
\* reason is executeHandler's Error, whose message names that one extension.
PromiseAllReason(rejections) == {Head(rejections)}

\* HookManager.register(hookName, handler, extensionId)
HookRegister(h, id) ==
    /\ hooks' = [hooks EXCEPT ![h] = SetAdd(@, id)]
    /\ UNCHANGED <<extensions, activeExtensions, extensionContexts, stack, op, dispatch, gateVars, chatVars, concVars>>

\* HookManager.unregister(hookName, extensionId)
HookUnregister(h, id) ==
    /\ hooks' = [hooks EXCEPT ![h] = SetDelete(@, id)]
    /\ UNCHANGED <<extensions, activeExtensions, extensionContexts, stack, op, dispatch, gateVars, chatVars, concVars>>

\* execute(hookName, context) up to its await: the early return, or the loop
\* calling executeHandler for every handler, each behaving as b says.
Execute(h, b) ==
    /\ dispatch.status = "idle"
    /\ \A id \in Ids : b[id] = "returns" \/ \E i \in 1..Len(hooks[h]) : hooks[h][i] = id
    /\ IF hooks[h] = <<>>
       THEN dispatch' = [NoDispatch EXCEPT !.status = "resolved", !.hook = h]
       ELSE LET called == Called(hooks[h], b)
                isCalled(id) == \E i \in 1..Len(called) : called[i] = id
                rejections == SelectSeq(called, LAMBDA id : b[id] = "throws")
            IN dispatch' =
                 [status |-> IF called = hooks[h] THEN "awaiting" ELSE "rejected",
                  hook |-> h,
                  handlers |-> hooks[h],
                  invoked |-> [id \in Ids |-> IF isCalled(id) THEN 1 ELSE 0],
                  promise |-> [id \in Ids |-> IF isCalled(id) THEN HandlerPromise(b[id])
                                               ELSE "none"],
                  rejections |-> rejections,
                  error |-> IF called = hooks[h] THEN {} ELSE PromiseAllReason(rejections)]
    /\ UNCHANGED <<extVars, gateVars, chatVars, concVars>>

\* The promise an asynchronous handler returned settles; executeHandler's
\* promise follows it.
HandlerSettles(id, outcome) ==
    /\ dispatch.promise[id] = "pending"
    /\ dispatch' = [dispatch EXCEPT !.promise[id] = outcome,
                        !.rejections = IF outcome = "rejected" THEN Append(@, id) ELSE @]
    /\ UNCHANGED <<extVars, gateVars, chatVars, concVars>>

\* await Promise.all(promises) completes: execute returns, or logs and rethrows.
PromiseAll ==
    /\ dispatch.status = "awaiting"
    /\ IF dispatch.rejections # <<>>
       THEN dispatch' = [dispatch EXCEPT !.status = "rejected",
                                         !.error = PromiseAllReason(dispatch.rejections)]
       ELSE /\ \A i \in 1..Len(dispatch.handlers) :
                  dispatch.promise[dispatch.handlers[i]] = "fulfilled"
            /\ dispatch' = [dispatch EXCEPT !.status = "resolved"]
    /\ UNCHANGED <<extVars, gateVars, chatVars, concVars>>

\* The caller has consumed the settled execute and every handler has settled.
ExecuteSettled ==
    /\ dispatch.status \in {"resolved", "rejected"}
    /\ \A id \in Ids : dispatch.promise[id] # "pending"
    /\ dispatch' = NoDispatch
    /\ UNCHANGED <<extVars, gateVars, chatVars, concVars>>

HookInit == dispatch = NoDispatch

HookNext ==
    \/ \E h \in RegisteredHooks, id \in Ids : HookRegister(h, id)
    \/ \E h \in RegisteredHooks, id \in Ids : HookUnregister(h, id)
    \/ \E h \in DispatchHooks, b \in [Ids -> Behaviours] : Execute(h, b)
    \/ \E id \in Ids, outcome \in {"fulfilled", "rejected"} : HandlerSettles(id, outcome)
    \/ PromiseAll
    \/ ExecuteSettled

-----------------------------------------------------------------------------
(* Chat: tool management around the approval extension *)

MaxWraps == 3           \* approval wrappers around one tool the model follows

ChatToolNames == {"read_file", "run_shell"}
Models == {"m1", "m2"}
Prompts == {"sp1", "sp2"}
NoAgent == [has |-> FALSE, tools |-> <<>>]
NoInvocation ==
    [status |-> "idle", tool |-> "", layer |-> 0, lookups |-> 0, requests |-> 0,
     executed |-> 0, outcome |-> ""]

\* The options.tools handed to the constructor: raw tools, no wrapper.
RawTools(names) == [n \in names |-> 0]

\* ApprovalExtension.wrapTools: a new record with every tool wrapped once more.
WrapTools(tools) == [n \in DOMAIN tools |-> tools[n] + 1]

\* wrapToolsWithApprovalExtension: the approval extension is registered and
\* has wrapTools, so this.tools becomes wrapTools(this.tools).
WrapToolsWithApprovalExtension(tools) == WrapTools(tools)

\* new Agent({..., tools: this.tools, ...})
NewAgent(tools) == [has |-> TRUE, tools |-> tools]

\* initialize(): merge the MCP tools (none configured), init the extensions,
\* wrap the tools, create the agent.
ChatInitialize ==
    /\ ~chat.initialized
    /\ LET tools == WrapToolsWithApprovalExtension(chat.tools)
       IN chat' = [chat EXCEPT !.initialized = TRUE, !.tools = tools, !.agent = NewAgent(tools)]
    /\ UNCHANGED <<invocation, tui, fanout, gateVars, extVars, hookVars, concVars>>

\* addTool(name, tool): store the tool, wrap this.tools, recreate the agent.
AddTool(name) ==
    /\ chat.initialized
    /\ \A n \in DOMAIN chat.tools : chat.tools[n] < MaxWraps
    /\ LET stored == [n \in DOMAIN chat.tools \cup {name} |->
                          IF n = name THEN 0 ELSE chat.tools[n]]
           tools == WrapToolsWithApprovalExtension(stored)
       IN chat' = [chat EXCEPT !.tools = tools, !.agent = NewAgent(tools)]
    /\ UNCHANGED <<invocation, tui, fanout, gateVars, extVars, hookVars, concVars>>

\* removeTool(name): delete this.tools[name], recreate the agent.
RemoveTool(name) ==
    /\ chat.initialized
    /\ LET tools == [n \in DOMAIN chat.tools \ {name} |-> chat.tools[n]]
       IN chat' = [chat EXCEPT !.tools = tools, !.agent = NewAgent(tools)]
    /\ UNCHANGED <<invocation, tui, fanout, gateVars, extVars, hookVars, concVars>>

\* updateTools(tools): this.tools = tools as given, recreate the agent.
UpdateTools(names) ==
    /\ chat.initialized
    /\ chat' = [chat EXCEPT !.tools = RawTools(names), !.agent = NewAgent(RawTools(names))]
    /\ UNCHANGED <<invocation, tui, fanout, gateVars, extVars, hookVars, concVars>>

\* updateTools(): no argument, the agent is recreated with this.tools.
UpdateToolsKeep ==
    /\ chat.initialized
    /\ chat' = [chat EXCEPT !.agent = NewAgent(chat.tools)]
    /\ UNCHANGED <<invocation, tui, fanout, gateVars, extVars, hookVars, concVars>>

\* setModel(model)
SetModel(model) ==
    /\ chat.initialized
    /\ chat' = [chat EXCEPT !.model = model, !.agent = NewAgent(chat.tools)]
    /\ UNCHANGED <<invocation, tui, fanout, gateVars, extVars, hookVars, concVars>>

\* setSystemPrompt(prompt)
SetSystemPrompt(prompt) ==
    /\ chat.initialized
    /\ chat' = [chat EXCEPT !.systemPrompt = prompt, !.agent = NewAgent(chat.tools)]
    /\ UNCHANGED <<invocation, tui, fanout, gateVars, extVars, hookVars, concVars>>

\* The agent calls tools[name].execute(parameters, options) without sessionId.
ChatInvoke(name) ==
    /\ invocation.status = "idle"
    /\ chat.agent.has /\ name \in DOMAIN chat.agent.tools
    /\ invocation' = [NoInvocation EXCEPT !.status = "running", !.tool = name,
                                          !.layer = chat.agent.tools[name]]
    /\ UNCHANGED <<chat, tui, fanout, gateVars, extVars, hookVars, concVars>>

\* One wrapper layer: shouldApprove (store lookup, else the strategy answers r
\* and a global approval is saved), then deny or call the execute it wraps.
WrapperLayer(r) ==
    /\ invocation.status = "running" /\ invocation.layer > 0
    /\ LET auto == invocation.tool \in chat.store
           approved == IF auto THEN "true" ELSE Resolved(r)
           saves == ~auto /\ ShouldSave(r) /\ SaveTarget(r.scope, Undefined) # {}
       IN /\ invocation' =
                [invocation EXCEPT
                    !.lookups = @ + 1,
                    !.requests = IF auto THEN @ ELSE @ + 1,
                    !.layer = IF WrapperDenies(approved) THEN @ ELSE @ - 1,
                    !.status = IF WrapperDenies(approved) THEN "done" ELSE @,
                    !.outcome = IF WrapperDenies(approved) THEN "denied" ELSE @]
          /\ \/ chat' = [chat EXCEPT !.store = IF saves THEN @ \cup {invocation.tool} ELSE @]
             \/ saves /\ UNCHANGED chat      \* the insert throws: caught, warned
    /\ UNCHANGED <<tui, fanout, gateVars, extVars, hookVars, concVars>>

\* The tool's own execute runs: no wrapper is left around it.
RealExecute ==
    /\ invocation.status = "running" /\ invocation.layer = 0
    /\ invocation' = [invocation EXCEPT !.executed = @ + 1, !.status = "done",
                                        !.outcome = "result"]
    /\ UNCHANGED <<chat, tui, fanout, gateVars, extVars, hookVars, concVars>>

\* The agent has consumed the invocation's result.
InvocationSettled ==
    /\ invocation.status = "done"
    /\ invocation' = NoInvocation
    /\ UNCHANGED <<chat, tui, fanout, gateVars, extVars, hookVars, concVars>>

\* new Chat({tools: {read_file}, extensions: [approvalExtension]})
ChatInit ==
    /\ chat = [initialized |-> FALSE, tools |-> RawTools({"read_file"}), agent |-> NoAgent,
               model |-> "m1", systemPrompt |-> "sp1", store |-> {}, extensions |-> <<>>]
    /\ invocation = NoInvocation

ChatNext ==
    \/ ChatInitialize
    \/ \E name \in ChatToolNames : AddTool(name)
    \/ \E name \in ChatToolNames : RemoveTool(name)
    \/ \E names \in SUBSET ChatToolNames : UpdateTools(names)
    \/ UpdateToolsKeep
    \/ \E model \in Models : SetModel(model)
    \/ \E prompt \in Prompts : SetSystemPrompt(prompt)
    \/ \E name \in ChatToolNames : ChatInvoke(name)
    \/ \E r \in Responses : WrapperLayer(r)
    \/ RealExecute
    \/ InvocationSettled

-----------------------------------------------------------------------------
(* ChatApp: approval requests in the TUI *)

RequestIds == {"r1", "r2", "r3"}        \* the promises handleApprovalRequest creates
NoRequest == "none"

\* The value handleApprovalResponse resolves with.
TuiResponse(approved, scope) ==
    [approved |-> approved, scope |-> IF approved THEN scope ELSE "absent"]

\* handleApprovalRequest(request): a new promise; its resolve function is
\* stored in globalThis.approvalResolve, replacing what was there.
HandleApprovalRequest(id) ==
    /\ tui.promise[id] = "unused"
    /\ tui' = [tui EXCEPT !.promise[id] = "pending", !.approvalRequest = id,
                          !.showApproval = TRUE, !.approvalResolve = id]
    /\ UNCHANGED <<chat, invocation, fanout, gateVars, extVars, hookVars, concVars>>

\* handleApprovalResponse(approved, scope): resolve through the stored
\* function and delete it, when there is one; hide the prompt.
HandleApprovalResponse(approved, scope) ==
    LET resolve == tui.approvalResolve
    IN tui' = [tui EXCEPT
                  !.promise = IF resolve # NoRequest /\ tui.promise[resolve] = "pending"
                              THEN [@ EXCEPT ![resolve] = "resolved"] ELSE @,
                  !.response = IF resolve # NoRequest /\ tui.promise[resolve] = "pending"
                               THEN [@ EXCEPT ![resolve] = TuiResponse(approved, scope)] ELSE @,
                  !.approvalResolve = NoRequest,
                  !.showApproval = FALSE,
                  !.approvalRequest = NoRequest]

\* The /approve command: handleApprovalResponse(true, "once") when a prompt shows.
ApproveCommand ==
    /\ tui.showApproval
    /\ HandleApprovalResponse(TRUE, "once")
    /\ UNCHANGED <<chat, invocation, fanout, gateVars, extVars, hookVars, concVars>>

\* The /deny command: handleApprovalResponse(false) when a prompt shows.
DenyCommand ==
    /\ tui.showApproval
    /\ HandleApprovalResponse(FALSE, "absent")
    /\ UNCHANGED <<chat, invocation, fanout, gateVars, extVars, hookVars, concVars>>

\* requestApproval's caller resumes with the response; the promise is gone.
ApprovalReturned(id) ==
    /\ tui.promise[id] = "resolved"
    /\ tui' = [tui EXCEPT !.promise[id] = "unused", !.response[id] = NoResponse]
    /\ UNCHANGED <<chat, invocation, fanout, gateVars, extVars, hookVars, concVars>>

TuiInit ==
    tui = [promise |-> [id \in RequestIds |-> "unused"],
           response |-> [id \in RequestIds |-> NoResponse],
           approvalResolve |-> NoRequest, showApproval |-> FALSE,
           approvalRequest |-> NoRequest]

TuiNext ==
    \/ \E id \in RequestIds : HandleApprovalRequest(id)
    \/ ApproveCommand
    \/ DenyCommand
    \/ \E id \in RequestIds : ApprovalReturned(id)

-----------------------------------------------------------------------------
(* Chat ExtensionManager: register and the unified callbacks of toAISDKOptions *)

MaxExtensions == 3      \* extensions registered with one Chat

CallbackKinds == {"onChunk", "onError", "onFinish", "onStepFinish"}

\* The extensions handed to the Chat: name, priority (0 when absent), callbacks.
ChatExtensions ==
    { [name |-> "logging", priority |-> 0, callbacks |-> {"onChunk", "onError", "onFinish"}],
      [name |-> "metrics", priority |-> 10, callbacks |-> {"onFinish", "onStepFinish"}],
      [name |-> "audit", priority |-> 0, callbacks |-> {"onChunk", "onFinish"}] }

\* push, then the stable sort by descending priority: the new extension
\* lands behind every extension whose priority is not lower.
PushAndSort(list, extension) ==
    LET ahead == {i \in 1..Len(list) : list[i].priority >= extension.priority}
        k == Cardinality(ahead)
    IN SubSeq(list, 1, k) \o <<extension>> \o SubSeq(list, k + 1, Len(list))

\* toAISDKOptions: the callbacks of one kind, in extension order.
CallbacksOf(list, kind) ==
    LET has == SelectSeq(list, LAMBDA e : kind \in e.callbacks)
    IN [i \in 1..Len(has) |-> has[i].name]

\* The unified callback without its try/catch around onFinish handlers.
CatchesCallbackError_NotOnFinish(kind) == kind # "onFinish"

\* Every unified callback awaits each handler inside try/catch and logs.
CatchesCallbackError(kind) == TRUE

NoFanout == [status |-> "idle", kind |-> "", callbacks |-> <<>>, i |-> 1,
             ran |-> <<>>, failures |-> <<>>, error |-> <<>>]

\* ExtensionManager.register(extension)
ChatRegister(extension) ==
    /\ fanout.status = "idle"
    /\ Len(chat.extensions) < MaxExtensions
    /\ chat' = [chat EXCEPT !.extensions = PushAndSort(@, extension)]
    /\ UNCHANGED <<invocation, tui, fanout, gateVars, extVars, hookVars, concVars>>

\* The AI SDK calls the unified callback of one kind, built by toAISDKOptions
\* from the registered extensions; it exists only with one handler or more.
CallUnified(kind) ==
    /\ fanout.status = "idle"
    /\ CallbacksOf(chat.extensions, kind) # <<>>
    /\ fanout' = [NoFanout EXCEPT !.status = "running", !.kind = kind,
                                  !.callbacks = CallbacksOf(chat.extensions, kind)]
    /\ UNCHANGED <<chat, invocation, tui, gateVars, extVars, hookVars, concVars>>

\* One turn of the loop: await callback(arg); a throw is caught and logged.
\* After the last turn the unified callback resolves.
CallbackTurn(throws) ==
    /\ fanout.status = "running"
    /\ LET name == fanout.callbacks[fanout.i]
           last == fanout.i = Len(fanout.callbacks)
       IN IF throws /\ ~CatchesCallbackError(fanout.kind)
          THEN fanout' = [fanout EXCEPT !.ran = Append(@, name),
                                        !.failures = Append(@, name),
                                        !.status = "rejected", !.error = <<name>>]
          ELSE fanout' = [fanout EXCEPT !.ran = Append(@, name),
                                        !.failures = IF throws THEN Append(@, name) ELSE @,
                                        !.i = @ + 1,
                                        !.status = IF last THEN "resolved" ELSE @]
    /\ UNCHANGED <<chat, invocation, tui, gateVars, extVars, hookVars, concVars>>

\* The AI SDK has consumed the settled callback.
UnifiedSettled ==
    /\ fanout.status \in {"resolved", "rejected"}
    /\ fanout' = NoFanout
    /\ UNCHANGED <<chat, invocation, tui, gateVars, extVars, hookVars, concVars>>

FanoutInit == fanout = NoFanout

FanoutNext ==
    \/ \E extension \in ChatExtensions : ChatRegister(extension)
    \/ \E kind \in CallbackKinds : CallUnified(kind)
    \/ \E throws \in BOOLEAN : CallbackTurn(throws)
    \/ UnifiedSettled

-----------------------------------------------------------------------------
(* Specifications *)

vars == <<gateVars, extVars, hookVars, chatVars, concVars>>
Init == GateInit /\ ExtInit /\ HookInit /\ ChatInit /\ TuiInit /\ FanoutInit
Next == GateNext
Spec == Init /\ [][Next]_vars

ExtSpec == Init /\ [][ExtNext]_vars

ConcSpec == Init /\ [][ConcNext]_vars

HookSpec == Init /\ [][HookNext]_vars

FollowSpec == Init /\ [][FollowNext]_vars

RaceSpec == Init /\ [][RaceNext]_vars

ChatSpec == Init /\ [][ChatNext]_vars

TuiSpec == Init /\ [][TuiNext]_vars

FanoutSpec == Init /\ [][FanoutNext]_vars

-----------------------------------------------------------------------------
(* Approval gate: properties *)

Answered(c) == call[c].pc \in {"gate", "done"}      \* shouldApprove has settled
Asked(c) == Len(call[c].requests)                   \* requestApproval invocations

\* C1: when shouldApprove resolves false, the wrapped execute fails with an
\* error naming the tool and the original execute is never called.
C1_DeniedNeverExecutes ==
    \A c \in Calls :
        call[c].approved = "false" =>
            /\ call[c].executed = <<>>
            /\ call[c].pc = "done" =>
                  call[c].outcome = [kind |-> "denied", tool |-> call[c].toolName]

C1_Witness ==
    \E c \in Calls :
        /\ call[c].pc = "done"
        /\ call[c].approved = "false"
        /\ call[c].outcome.kind = "denied"
        /\ ToolSet[call[c].toolName].execute

\* C2: while a global row for the tool is in the table, every shouldApprove
\* for it, with any sessionId or none, returns true and the strategy is not
\* invoked.
C2_GlobalAutoApproves ==
    \A c \in Calls :
        call[c].globalRow = "yes" =>
            /\ Asked(c) = 0
            /\ Answered(c) => call[c].approved = "true"

C2_Witness ==
    \E c \in Calls :
        /\ call[c].pc = "done"
        /\ call[c].globalRow = "yes"
        /\ call[c].sessionId = "s2"
        /\ call[c].outcome.kind = "result"

\* C3: with no global row, a session row for (T, s1) auto-approves calls made
\* with s1 without asking, while a call with another session or with none
\* asks the strategy, whatever other sessions' rows exist.
C3_SessionAutoApprovesOwnSessionOnly ==
    \A c \in Calls :
        call[c].globalRow = "no" =>
            /\ call[c].sessionRow = "yes" =>
                  /\ Asked(c) = 0
                  /\ Answered(c) => call[c].approved = "true"
            /\ (call[c].sessionId = Undefined \/ call[c].sessionRow = "no") =>
                  Asked(c) = 1

C3_Witness ==
    \E c \in Calls :
        /\ call[c].pc = "prompt"
        /\ call[c].sessionId = "s2"
        /\ Asked(c) = 1
        /\ autoApprovedTools[<<call[c].toolName, "s1">>] > 0
        /\ autoApprovedTools[<<call[c].toolName, Undefined>>] = 0

NonPersisting(r) == r \in Responses /\ (~r.approved \/ r.scope \in {"once", "absent"})

\* C4: an approval with scope once or no scope, or a denial with any scope,
\* leaves the table unchanged; afterwards the tool is not listed by
\* getAutoApprovedTools() and is not auto-approved for the same call.
C4_Unpersisted ==
    \A c \in Calls :
        NonPersisting(call[c].response) =>
            /\ call[c].writes = <<>>
            /\ call[c].approved = Resolved(call[c].response)
            /\ \A scope \in {"absent", "global", "session"} :
                  \A k \in GetAutoApprovedTools(call[c].sessionId, scope) :
                      k[1] # call[c].toolName
            /\ ~IsToolAutoApproved(call[c].toolName, call[c].sessionId)

C4_Frame ==
    \A c \in Calls :
        (call'[c] # call[c] /\ (NonPersisting(call[c].response) \/ NonPersisting(call'[c].response)))
            => autoApprovedTools' = autoApprovedTools

\* C4: no call answered with once, no scope or a denial writes the table
\* (C4_Frame), and afterwards its tool is unlisted and asked for again
\* (C4_Unpersisted).
C4_OnceAndDenialsNotPersisted == [](C4_Unpersisted) /\ [][C4_Frame]_vars

C4_Witness ==
    \E c \in Calls :
        /\ call[c].pc = "done"
        /\ call[c].response = [approved |-> FALSE, scope |-> "global"]
        /\ \E k \in Keys : autoApprovedTools[k] > 0

\* C5: an approval with scope session for a call made without a sessionId
\* returns true and writes neither a session row nor a global row, so the
\* tool is still not auto-approved.
C5_NoSessionId ==
    \A c \in Calls :
        (call[c].response = [approved |-> TRUE, scope |-> "session"]
            /\ call[c].sessionId = Undefined /\ Answered(c)) =>
            /\ call[c].approved = "true"
            /\ call[c].writes = <<>>
            /\ autoApprovedTools[<<call[c].toolName, Undefined>>] = 0
            /\ ~IsToolAutoApproved(call[c].toolName, Undefined)

C5_Frame ==
    \A c \in Calls :
        (call'[c] # call[c] /\ call[c].sessionId = Undefined
            /\ call[c].response = [approved |-> TRUE, scope |-> "session"])
            => autoApprovedTools' = autoApprovedTools

\* C5: a session-scoped approval without sessionId returns true
\* (C5_NoSessionId) and creates no row (C5_Frame).
C5_SessionScopeWithoutSessionId == [](C5_NoSessionId) /\ [][C5_Frame]_vars

C5_Witness ==
    \E c \in Calls :
        /\ call[c].pc = "done"
        /\ call[c].response = [approved |-> TRUE, scope |-> "session"]
        /\ call[c].sessionId = Undefined
        /\ call[c].outcome.kind = "result"

\* C6 as stated: on approval the original execute is called exactly once with
\* the caller's parameters and the caller's second argument, also when the
\* caller passed none.
C6_Original ==
    \A c \in Calls :
        (call[c].pc = "done" /\ call[c].approved = "true"
            /\ ToolSet[call[c].toolName].execute) =>
            /\ call[c].executed = <<[parameters |-> call[c].parameters,
                                     options |-> call[c].options]>>
            /\ call[c].outcome = [kind |-> "result", tool |-> call[c].toolName]

\* C6 amended: on approval the original execute is called exactly once with
\* the caller's parameters; its second argument is the caller's when one was
\* passed, and {toolCallId: 'approval-wrapped', messages: []} when none was.
C6_DelegatesOnce ==
    \A c \in Calls :
        /\ call[c].pc # "done" => call[c].executed = <<>>
        /\ (call[c].pc = "done" /\ call[c].approved = "true"
               /\ ToolSet[call[c].toolName].execute) =>
              /\ call[c].executed =
                    <<[parameters |-> call[c].parameters,
                       options |-> IF call[c].options \in CallerOptions
                                   THEN call[c].options
                                   ELSE [defined |-> TRUE, toolCallId |-> "approval-wrapped",
                                         sessionId |-> Undefined]]>>
              /\ call[c].outcome = [kind |-> "result", tool |-> call[c].toolName]

C6_Witness ==
    \E c \in Calls :
        /\ call[c].pc = "done"
        /\ call[c].approved = "true"
        /\ call[c].options = UndefinedOptions
        /\ Len(call[c].executed) = 1

\* C7 as stated: removal with scope 'session' never removes the global entry
\* (for any sessionId, also an absent one), removal with scope 'global' never
\* removes a session entry, and removing an absent entry changes nothing.
C7_Step ==
    \A t \in Tools, sid \in SessionIds :
        /\ RemoveAutoApprovedTool(t, sid, "session") =>
              autoApprovedTools'[<<t, Undefined>>] = autoApprovedTools[<<t, Undefined>>]
        /\ RemoveAutoApprovedTool(t, sid, "global") =>
              \A s \in Sessions : autoApprovedTools'[<<t, s>>] = autoApprovedTools[<<t, s>>]
        /\ \A scope \in {"absent", "global", "session"} :
              (RemoveAutoApprovedTool(t, sid, scope)
                  /\ \A s \in SessionIds : autoApprovedTools[<<t, s>>] = 0)
                  => autoApprovedTools' = autoApprovedTools

\* C7 as stated, over every removeAutoApprovedTool step.
C7_ScopedRemoval == [][C7_Step]_vars

\* C18: when the insert of a session or global approval throws, shouldApprove
\* still returns true and the wrapper runs the tool, the error reaches no
\* caller, the insert was attempted once, and the next call for the same
\* tool asks the strategy again.
C18_WriteFailureHonoursDecisionOnce ==
    /\ \A c \in Calls :
          call[c].saveError =>
              /\ call[c].approved = "true"
              /\ call[c].response.approved /\ call[c].response.scope \in {"session", "global"}
              /\ Len(call[c].writes) = 1
              /\ Asked(c) = 1
              /\ call[c].pc \in {"gate", "done"}
              /\ call[c].pc = "done" => call[c].outcome.kind \in {"result", "noExecute"}
    /\ (/\ call["c1"].saveError
        /\ call["c2"].toolName = call["c1"].toolName
        /\ call["c2"].pc \in {"prompt", "save", "gate", "done"}
        /\ ~call["c2"].lookupError) => Asked("c2") = 1

C18_Witness ==
    /\ call["c1"].saveError /\ call["c1"].pc = "done"
    /\ call["c1"].response = [approved |-> TRUE, scope |-> "global"]
    /\ call["c1"].outcome.kind = "result"
    /\ call["c2"].toolName = call["c1"].toolName
    /\ call["c2"].sessionId = "s1"
    /\ call["c2"].pc = "prompt"

\* C19 as stated: when a query of isToolAutoApproved throws during
\* shouldApprove, the error does not reach the caller; the strategy is asked
\* and its decision is the call's result.
C19_LookupFailureDegradesToStrategy ==
    \A c \in Calls :
        (call[c].lookupError /\ call[c].pc = "done") =>
            /\ call[c].outcome.kind # "storageError"
            /\ Asked(c) = 1
            /\ call[c].approved = Resolved(call[c].response)

-----------------------------------------------------------------------------
(* Extension manager: properties *)

ActiveSet(seq) == {seq[i] : i \in 1..Len(seq)}
Count(log, event) == Cardinality({i \in 1..Len(log) : log[i] = event})

\* The event the step appends last to the host call's log, if it appends one.
Appends(event) ==
    /\ op'.kind = op.kind /\ Len(op'.log) > Len(op.log)
    /\ \E i \in (Len(op.log) + 1)..Len(op'.log) : op'.log[i] = event

\* C8: whenever an extension is added to the active set, and whenever its
\* own activate callback runs, every dependency it declares is already
\* active; activate(B) with A and B inactive activates A first.
C8_Step ==
    \A id \in Ids :
        /\ (id \notin ActiveSet(activeExtensions) /\ id \in ActiveSet(activeExtensions'))
              => GetDependencies(id) \subseteq ActiveSet(activeExtensions)
        /\ Appends(Event("activate", id))
              => GetDependencies(id) \subseteq ActiveSet(activeExtensions)

\* C8: every step activates and runs callbacks only after the dependencies.
C8_DependenciesActiveFirst == [][C8_Step]_vars

C8_Witness ==
    /\ op.kind = "activate" /\ op.id = IdB /\ op.status = "resolved"
    /\ op.before = <<>>
    /\ activeExtensions = <<IdA, IdB>>
    /\ op.log[3] = Event("afterInit", IdA)
    /\ Count(op.log, Event("activate", IdB)) = 1

RECURSIVE DependencyClosure(_, _)
DependencyClosure(S, n) ==
    IF n = 0 THEN S
    ELSE DependencyClosure(S \cup UNION {GetDependencies(j) : j \in S}, n - 1)
Reaches(id) == DependencyClosure(GetDependencies(id), Cardinality(Ids))
OnCycle(id) == id \in Reaches(id)
CycleMembers(id) == {j \in Reaches(id) : id \in Reaches(j)}

\* C9 as stated: activate(id) on an extension on a dependency cycle, none of
\* the cycle's extensions being active, never resolves, runs no extension's
\* activate callback and leaves the cycle's extensions inactive.
C9_CycleRejectedBeforeCallbacks ==
    (/\ op.kind = "activate"
     /\ OnCycle(op.id)
     /\ CycleMembers(op.id) \cap ActiveSet(op.before) = {}) =>
        /\ op.status # "resolved"
        /\ \A i \in 1..Len(op.log) : op.log[i][1] # "activate"
        /\ CycleMembers(op.id) \cap ActiveSet(activeExtensions) = {}

\* C10: activate(id) on an active extension resolves at once, running no
\* callback and no hook and changing nothing; an activate(id) that resolved
\* from inactive ran the pre-activation hook, the activate callback and the
\* post-activation hook of id exactly once; every registered extension is
\* listed once, under its own id, and the active set holds no id twice.
C10_RepeatedActivateIsNoOp ==
    /\ (op.kind = "activate" /\ op.id \in ActiveSet(op.before)) =>
          /\ op.status = "resolved"
          /\ op.log = <<>>
          /\ stack = <<>>
          /\ activeExtensions = op.before
    /\ (op.kind = "activate" /\ op.status = "resolved"
           /\ op.id \notin ActiveSet(op.before)) =>
          /\ IsActive(op.id)
          /\ Count(op.log, Event("beforeInit", op.id)) = 1
          /\ Count(op.log, Event("activate", op.id))
                = (IF extensions[op.id].activate THEN 1 ELSE 0)
          /\ Count(op.log, Event("afterInit", op.id)) = 1
    /\ \A id \in Ids : IsRegistered(id) =>
          Cardinality({i \in Ids : extensions[i] # NoExt
                                    /\ GetExtensionId(extensions[i]) = id}) = 1
    /\ \A i, j \in 1..Len(activeExtensions) :
          activeExtensions[i] = activeExtensions[j] => i = j

C10_Witness ==
    /\ op.kind = "activate" /\ op.status = "resolved"
    /\ op.id \in ActiveSet(op.before)
    /\ extensions[op.id].activate

\* C14 as stated: when activate(id) raises at any step (a dependency's
\* activation, the pre-activation hook, the activate callback or the
\* post-activation hook), isActive(id) is false afterwards.
C14_FailedActivateLeavesInactive ==
    (op.kind = "activate" /\ op.status = "rejected" /\ op.id \notin ActiveSet(op.before))
        => ~IsActive(op.id)

\* C15 as stated: register(ext) with an id that is already registered is
\* rejected and leaves the registered extension, its context and its hook
\* handlers as they were.
C15_Step ==
    \A extension \in Catalog :
        (Register(extension) /\ IsRegistered(GetExtensionId(extension))) =>
            /\ op'.status = "rejected"
            /\ UNCHANGED <<extensions, extensionContexts, hooks>>

\* C15 as stated, over every register step.
C15_DuplicateIdRejected == [][C15_Step]_vars

\* The failures of register the claim lists, read off the extension and the
\* registry: name, version, framework range, dependencies.
Malformed(extension) ==
    \/ extension.name = <<>>
    \/ extension.version = ""
    \/ ~SemverValid(extension.version)
    \/ extension.chatTools # "" /\ ~Satisfies(FrameworkVersion, extension.chatTools)
    \/ \E i \in 1..Len(extension.deps) :
          \/ extensions[extension.deps[i].id] = NoExt
          \/ ~Satisfies(extensions[extension.deps[i].id].version, extension.deps[i].range)

C16_Step ==
    \A extension \in Catalog :
        (Register(extension) /\ (Malformed(extension) \/ op'.status = "rejected")) =>
            /\ Malformed(extension)
            /\ op'.status = "rejected"
            /\ UNCHANGED <<extensions, extensionContexts, activeExtensions, hooks>>

\* C16: register(ext) fails exactly for an empty name or version, a version
\* that is no semantic version, a framework range the host does not satisfy,
\* or a dependency that is unregistered or out of range, and a failed
\* register leaves extensions, contexts, the active set and the hook
\* registrations as they were.
C16_FailedRegisterChangesNothing == [][C16_Step]_vars

C16_Witness ==
    /\ op.kind = "register" /\ op.status = "rejected" /\ op.error = "dependency"
    /\ op.id = IdB
    /\ IsRegistered(IdA) /\ extensions[IdA].version = "1.0.0"
    /\ extensions[IdB] = NoExt
    /\ IdA \in extensionContexts /\ IdB \notin extensionContexts
    /\ IsActive(IdA)

\* C17 as stated: between host calls no active extension has a declared
\* dependency that is registered with a version outside the required range.
C17_ActiveDependenciesInRange ==
    ~Running =>
        \A id \in Ids : (IsActive(id) /\ IsRegistered(id)) =>
            \A i \in 1..Len(extensions[id].deps) :
                IsRegistered(extensions[id].deps[i].id) =>
                    Satisfies(extensions[extensions[id].deps[i].id].version,
                              extensions[id].deps[i].range)

\* C20 as stated: the tools returned by getToolsFromExtensions hold at most
\* one tool per name; of two active extensions providing the same name only
\* the tool of the one activated earlier is in the result.
C20_OneToolPerName ==
    (op.kind = "getTools" /\ op.status = "resolved") =>
        \A i, j \in 1..Len(op.log) : op.log[i][1] = op.log[j][1] => i = j

\* C25 as stated: a failed activate(id) leaves the active set as it was
\* before the call; dependencies activated for id do not stay active.
C25_FailedActivateRestoresActiveSet ==
    (op.kind = "activate" /\ op.status = "rejected") => activeExtensions = op.before

C26_HandlersWhileRegistered ==
    \A id \in Ids : IsRegistered(id) =>
        \A h \in extensions[id].hooks : id \in ActiveSet(hooks[h])

C26_Step ==
    (op'.kind \in {"activate", "deactivate"} /\ op' # NoOp) => hooks' = hooks

\* C26: while an extension is registered, every hook it declares has a
\* handler owned by its id in the hook manager, and no step of activate or
\* deactivate changes the hook registrations: the handlers of extensions that
\* were never activated, failed to activate or were deactivated stay in place
\* for execute to call.
C26_HooksFollowRegistration == [](C26_HandlersWhileRegistered) /\ [][C26_Step]_vars

C26_Witness ==
    /\ op.kind = "deactivate" /\ op.status = "resolved" /\ op.id = IdB
    /\ IdB \in ActiveSet(op.before) /\ ~IsActive(IdB)
    /\ hooks["framework:afterInit"] = <<IdB>>
    /\ hooks["framework:beforeShutdown"] = <<IdB>>
    /\ Count(op.log, Event("beforeShutdown", IdB)) = 1

\* C28: deactivate(id) changes the active status of id only; every other
\* extension keeps its status and its place, also an active extension that
\* declares id as a dependency, which can be active while id is inactive.
C28_DeactivateChangesOnlyItsId ==
    op.kind = "deactivate" =>
        /\ activeExtensions \in {op.before, SelectSeq(op.before, LAMBDA x : x # op.id)}
        /\ (op.status = "resolved" /\ IsRegistered(op.id)) =>
              activeExtensions = SelectSeq(op.before, LAMBDA x : x # op.id)

C28_Witness ==
    /\ op.kind = "deactivate" /\ op.status = "resolved" /\ op.id = IdA
    /\ op.before = <<IdA, IdB>>
    /\ activeExtensions = <<IdB>>
    /\ IdA \in GetDependencies(IdB)

\* C27 as stated: every active extension is registered, in every reachable
\* state, also when unregister(id) runs while an activate(id) is awaiting.
C27_ActiveAreRegistered ==
    \A i \in 1..Len(activeExtensions) : IsRegistered(activeExtensions[i])

C30_Overlapping(id) ==
    /\ op.kind = "activate" /\ parked.op.kind = "activate"
    /\ op.id = id /\ parked.op.id = id
    /\ op.status = "resolved" /\ parked.op.status = "resolved"
    /\ ~(id \in ActiveSet(op.before)) /\ ~(id \in ActiveSet(parked.op.before))

\* C30 as stated: two interleaved activate(id) calls for one inactive
\* extension run its activate callback and its pre- and post-activation hooks
\* once, and leave the state one activate(id) leaves.
C30_InterleavedActivateRunsOnce ==
    \A id \in Ids : C30_Overlapping(id) =>
        /\ \A what \in {"beforeInit", "activate", "afterInit"} :
              Count(op.log \o parked.op.log, Event(what, id)) = 1
        /\ IsActive(id)

\* C29 as stated: the auto_approved_tools table never holds two rows for one
\* key, (tool, NULL) or (tool, sessionId), whatever shouldApprove calls ran,
\* two calls that both asked the strategy before either inserted included.
C29_OneEntryPerKey == \A k \in Keys : autoApprovedTools[k] <= 1

-----------------------------------------------------------------------------
(* Hook manager: properties *)

Handlers == ActiveSet(dispatch.handlers)        \* the handlers of the dispatched hook
StillRunning == {id \in Ids : dispatch.promise[id] = "pending"}

C11_AllInvoked ==
    dispatch.status # "idle" =>
        /\ \A id \in Ids : dispatch.invoked[id] = (IF id \in Handlers THEN 1 ELSE 0)
        /\ Handlers = {} => (dispatch.status = "resolved" /\ dispatch.error = {})

C11_Step ==
    /\ (dispatch.status = "idle" /\ dispatch'.status # "idle")
          => dispatch'.handlers = hooks[dispatch'.hook]
    /\ (dispatch.status # "idle" /\ dispatch'.status # "idle")
          => (dispatch'.invoked = dispatch.invoked /\ dispatch'.handlers = dispatch.handlers)

\* C11: execute(name, ctx) calls every handler registered for the hook when
\* it is called exactly once, and no other handler, whether or not handlers
\* of the hook throw synchronously or reject later; with no handler
\* registered it resolves without error.
C11_EveryHandlerInvokedOnce == [](C11_AllInvoked) /\ [][C11_Step]_vars

C11_Witness ==
    /\ dispatch.status = "rejected"
    /\ Len(dispatch.handlers) = 3
    /\ dispatch.promise[dispatch.handlers[1]] = "rejected"
    /\ dispatch.promise[dispatch.handlers[2]] = "rejected"
    /\ dispatch.rejections = <<dispatch.handlers[2], dispatch.handlers[1]>>
    /\ dispatch.invoked[dispatch.handlers[3]] = 1

\* C12 as stated: when execute rejects, its one error references every
\* handler that has failed in this dispatch, not only the first.
C12_Step ==
    (dispatch.status = "awaiting" /\ dispatch'.status = "rejected")
        => {id \in Ids : dispatch'.promise[id] = "rejected"} \subseteq dispatch'.error

\* C12 as stated, over every step that completes an execute.
C12_ErrorReferencesAllFailures == [][C12_Step]_vars

\* C13 as stated: execute resolves or rejects only after every handler it
\* called has settled; no failure is reported while another handler of the
\* dispatch is still running.
C13_CompletesAfterAllSettled ==
    dispatch.status \in {"resolved", "rejected"} => StillRunning = {}

-----------------------------------------------------------------------------
(* Chat, ChatApp and unified callbacks: properties *)

\* C21 as stated: once initialize() has run, whatever addTool, removeTool,
\* updateTools, setModel and setSystemPrompt calls follow, every tool the
\* Chat holds and every tool its agent was given is approval-wrapped, and no
\* tool's own execute runs without a shouldApprove call before it.
C21_EveryToolWrapped ==
    chat.initialized =>
        /\ \A n \in DOMAIN chat.tools : chat.tools[n] >= 1
        /\ chat.agent.has
        /\ \A n \in DOMAIN chat.agent.tools : chat.agent.tools[n] >= 1
        /\ invocation.executed > 0 => invocation.lookups > 0

\* C22 as stated: one invocation through the Chat's tools creates at most
\* one approval request and asks the strategy at most once, also for tools
\* that were present before an addTool call: no tool is wrapped twice.
C22_OneRequestPerInvocation ==
    /\ invocation.requests <= 1
    /\ invocation.lookups <= 1
    /\ \A n \in DOMAIN chat.tools : chat.tools[n] <= 1

\* C23 as stated: with approval requests pending at the same time, every
\* pending request can still be resolved by a response: its resolver has not
\* been replaced by a later request's.
C23_EveryPendingRequestResolvable ==
    \A id \in RequestIds : tui.promise[id] = "pending" => tui.approvalResolve = id

\* C24 as stated: a unified lifecycle callback calls every contributing
\* handler even when an earlier one throws, and when handlers threw it
\* reports them to its caller as one aggregated error.
C24_Original ==
    fanout.status \in {"resolved", "rejected"} =>
        /\ fanout.ran = fanout.callbacks
        /\ fanout.failures # <<>> =>
              (fanout.status = "rejected" /\ fanout.error = fanout.failures)

\* C24 amended: a unified lifecycle callback calls every contributing
\* handler once, in extension order, even when an earlier one throws; each
\* failure is caught and logged, and the callback always resolves: no
\* failure is reported to its caller.
C24_AllRunFailuresLogged ==
    /\ fanout.status # "rejected" /\ fanout.error = <<>>
    /\ fanout.status # "idle" =>
          /\ fanout.callbacks = CallbacksOf(chat.extensions, fanout.kind)
          /\ fanout.ran = SubSeq(fanout.callbacks, 1, Len(fanout.ran))
          /\ \A i \in 1..Len(fanout.failures) :
                \E j \in 1..Len(fanout.ran) : fanout.ran[j] = fanout.failures[i]
    /\ fanout.status = "resolved" => fanout.ran = fanout.callbacks

C24_Witness ==
    /\ fanout.status = "resolved" /\ fanout.kind = "onFinish"
    /\ fanout.callbacks = <<"metrics", "logging", "audit">>
    /\ fanout.ran = fanout.callbacks
    /\ fanout.failures = <<"metrics", "audit">>

====
